---- MODULE Spec2Model ----
(***************************************************************************)
(* Model of zh-weather-mcp (src/main.rs): two MCP tools, get_alerts (the   *)
(* current-weather tool) and get_forecast, backed by one HTTP GET each,    *)
(* and the two pure formatters format_alerts and format_forecast.          *)
(*                                                                         *)
(* A Rust String is modelled as a sequence of tokens; format! and push_str *)
(* are concatenation.  A literal piece of a template is one token, a value *)
(* substituted for {} is inserted verbatim, token by token, as format!     *)
(* does (no escaping).  String literals of the source that are not ASCII   *)
(* are written as ASCII tokens; the comment next to each gives the source  *)
(* text.                                                                   *)
(***************************************************************************)
EXTENDS Bags, FiniteSets, Integers, Sequences, TLC

VARIABLES
    inv,      \* inv[i]: the i-th tool invocation (an async task of the server)
    log,      \* the tracing log file, as a bag of entries
    stdout,   \* what has been written to the process's standard output
    op,       \* pure-function specifications: the function applied
    arg,      \* pure-function specifications: its argument
    ret,      \* pure-function specifications: its return value
    applied   \* pure-function specifications: has the function returned

vars == <<inv, log, stdout, op, arg, ret, applied>>

-----------------------------------------------------------------------------
(* Bounds *)

MaxInv == 2        \* tool invocations that may be in flight together
MaxReports == 3    \* length of the lives array given to format_alerts
MaxEnvelopes == 2  \* length of the forecasts array given to format_forecast
MaxDays == 2       \* length of one envelope's casts array
MaxCodeLen == 4    \* tokens in a location code

-----------------------------------------------------------------------------
(* Tokens of the templates *)

NL == "\n"
SEP == "---"
DEG == "deg"                 \* the degree sign of the templates
SP == " "
LP == "("
RP == ")"
LblProvince == "province: "  \* line 74, first label  (sheng fen)
LblCity == "city: "          \* line 74, second label (cheng shi)
LblWeather == "weather: "    \* line 74, third label  (tian qi)
LblTemp == "temperature: "   \* line 74, fourth label (wen du)
LblWind == "wind: "          \* line 74, fifth label  (feng xiang)
LblDate == "date: "          \* line 95, first label  (ri qi)
LblDay == "day: "            \* line 95, second label (bai tian)
LblNight == "night: "        \* line 95, third label  (ye jian)

NoAlertsText == <<"No active alerts found.">>
NoForecastText == <<"No forecast data available.">>
AlertsFallback == <<"No alerts found or an error occurred.">>
ForecastFallbackSame == <<"No alerts found or an error occurred.">>
ForecastFallback == <<"No forecast found or an error occurred.">>

-----------------------------------------------------------------------------
(* Data shapes.  Every field is a String: a sequence of tokens. *)

Live(p, c, w, t, wd, wp) ==
    [province |-> p, city |-> c, adcode |-> <<"110000">>, weather |-> w,
     temperature |-> t, winddirection |-> wd, windpower |-> wp,
     humidity |-> <<"40">>, reporttime |-> <<"2024-01-01 12:00:00">>,
     temperature_float |-> <<"20.0">>, humidity_float |-> <<"40.0">>]

DayForecast(d, dw, nw, dt, nt, dwi, nwi, dp, np) ==
    [date |-> d, dayweather |-> dw, nightweather |-> nw, daytemp |-> dt,
     nighttemp |-> nt, daywind |-> dwi, nightwind |-> nwi, daypower |-> dp,
     nightpower |-> np]

Forecast(c, ds) == [city |-> c, casts |-> ds]

\* Reports the formatters are run on.  The third carries a weather text
\* with a line break and a separator inside it, and an empty temperature.
LiveA == Live(<<"Beijing">>, <<"Beijing City">>, <<"sunny">>, <<"20">>,
              <<"NW">>, <<"3">>)
LiveB == Live(<<"Guangdong">>, <<"Shenzhen">>, <<"rain">>, <<"-", "2">>,
              <<"S">>, <<"<=", "3">>)
LiveC == Live(<<"Hubei">>, <<"Wuhan">>, <<"fog", NL, SEP, NL, LblProvince>>,
              <<>>, <<"E">>, <<"4">>)
Lives == {LiveA, LiveB, LiveC}

DayA == DayForecast(<<"2024-01-01">>, <<"sunny">>, <<"cloudy">>, <<"20">>,
                    <<"9">>, <<"NW">>, <<"N">>, <<"3">>, <<"1-3">>)
DayB == DayForecast(<<"2024-01-02">>, <<"rain", NL, SEP, NL>>, <<"snow">>,
                    <<"5">>, <<"-", "1">>, <<"S">>, <<"SE">>, <<"4">>, <<>>)
Days == {DayA, DayB}

SeqsUpTo(S, n) == UNION {[1..k -> S] : k \in 0..n}

Forecasts == {Forecast(<<"Beijing City">>, ds) : ds \in SeqsUpTo(Days, MaxDays)}

-----------------------------------------------------------------------------
(* format_alerts, lines 66-84 *)

\* the format! of lines 73-81 with the separator line left out
AlertBlockNoSep(alert) ==
    <<LblProvince>> \o alert.province \o <<NL, LblCity>> \o alert.city
        \o <<NL, LblWeather>> \o alert.weather
        \o <<NL, LblTemp>> \o alert.temperature \o <<DEG, NL, LblWind>>
        \o alert.winddirection \o <<LP>> \o alert.windpower \o <<RP, NL>>

\* the format! of lines 73-81
AlertBlock(alert) ==
    <<LblProvince>> \o alert.province \o <<NL, LblCity>> \o alert.city
        \o <<NL, LblWeather>> \o alert.weather
        \o <<NL, LblTemp>> \o alert.temperature \o <<DEG, NL, LblWind>>
        \o alert.winddirection \o <<LP>> \o alert.windpower
        \o <<RP, NL, SEP, NL>>

\* the for loop of lines 72-82: result.push_str(block) for each alert
RECURSIVE AlertsLoop(_, _)
AlertsLoop(result, alerts) ==
    IF alerts = <<>> THEN result
    ELSE AlertsLoop(result \o AlertBlock(Head(alerts)), Tail(alerts))

format_alerts(alerts) ==
    IF alerts = <<>> THEN NoAlertsText
    ELSE AlertsLoop(<<>>, alerts)

-----------------------------------------------------------------------------
(* format_forecast, lines 86-103 *)

\* the format! of lines 94-99; the daytime line ends with a space
DayBlock(day) ==
    <<LblDate>> \o day.date \o <<NL, LblDay>> \o day.dayweather \o <<SP>>
        \o day.daytemp \o <<DEG, SP>> \o day.daywind \o <<LP>>
        \o day.daypower \o <<RP, SP, NL, LblNight>> \o day.nightweather
        \o <<SP>> \o day.nighttemp \o <<DEG, SP>> \o day.nightwind
        \o <<LP>> \o day.nightpower \o <<RP, NL, SEP, NL>>

\* the inner loop of lines 93-100
RECURSIVE DaysLoop(_, _)
DaysLoop(result, casts) ==
    IF casts = <<>> THEN result
    ELSE DaysLoop(result \o DayBlock(Head(casts)), Tail(casts))

\* a loop that formats the first envelope only
PeriodsLoopFirstOnly(result, periods) ==
    IF periods = <<>> THEN result
    ELSE DaysLoop(result, Head(periods).casts)

\* the outer loop of lines 92-101
RECURSIVE PeriodsLoop(_, _)
PeriodsLoop(result, periods) ==
    IF periods = <<>> THEN result
    ELSE PeriodsLoop(DaysLoop(result, Head(periods).casts), Tail(periods))

\* a format_forecast that also answers the sentinel when no day was emitted
format_forecast_sentinel_on_no_day(periods) ==
    IF PeriodsLoop(<<>>, periods) = <<>> THEN NoForecastText
    ELSE PeriodsLoop(<<>>, periods)

format_forecast(periods) ==
    IF periods = <<>> THEN NoForecastText
    ELSE PeriodsLoop(<<>>, periods)

-----------------------------------------------------------------------------
(* The request URLs, lines 13, 150-153 and 173-176 *)

NWS_API_BASE ==
    <<"https://restapi.amap.com/v3/weather/weatherInfo", "?", "parameters">>
API_KEY == "3e7f6bcddfcbe0f1619f5842c9226908"

\* format!("{}&key=...&city={}&output=json", NWS_API_BASE, state)
alerts_url(state) ==
    NWS_API_BASE \o <<"&", "key", "=", API_KEY, "&", "city", "=">> \o state
        \o <<"&", "output", "=", "json">>

\* format!("{}&key=...&city={}&output=json&extensions=all", NWS_API_BASE, city)
forecast_url(city) ==
    NWS_API_BASE \o <<"&", "key", "=", API_KEY, "&", "city", "=">> \o city
        \o <<"&", "output", "=", "json", "&", "extensions", "=", "all">>

\* The tokens a caller can put in a location code: the parameter is an
\* unconstrained String (lines 147 and 169).
CodeTokens == {"110000", "&", "=", "extensions", "all"}
Codes == SeqsUpTo(CodeTokens, MaxCodeLen)

\* How the receiving server reads a URL: the query is what follows the
\* first "?", its parameters are the pieces between "&".
RECURSIVE IndexOf(_, _, _)
IndexOf(s, t, from) ==
    IF from > Len(s) THEN 0
    ELSE IF s[from] = t THEN from
    ELSE IndexOf(s, t, from + 1)

QueryOf(url) ==
    IF IndexOf(url, "?", 1) = 0 THEN <<>>
    ELSE SubSeq(url, IndexOf(url, "?", 1) + 1, Len(url))

RECURSIVE Pieces(_)
Pieces(q) ==
    IF IndexOf(q, "&", 1) = 0 THEN {q}
    ELSE {SubSeq(q, 1, IndexOf(q, "&", 1) - 1)}
            \cup Pieces(SubSeq(q, IndexOf(q, "&", 1) + 1, Len(q)))

Params(url) == Pieces(QueryOf(url))

\* the URL carries the parameter name with exactly the value value
Carries(url, name, value) == (<<name, "=">> \o value) \in Params(url)

\* the URL holds the text "&city=" followed by the location code
HoldsCity(url, code) ==
    \E k \in 1..Len(url) :
        /\ k + 2 + Len(code) <= Len(url)
        /\ SubSeq(url, k, k + 2 + Len(code)) = <<"&", "city", "=">> \o code

\* the URL carries some parameter called name
HasParam(url, name) == \E p \in Params(url) : Len(p) >= 1 /\ p[1] = name

-----------------------------------------------------------------------------
(* HTTP responses and their decoding, lines 18-25, 40-47, 134-140 *)

StatusOK == 200
Statuses == {200, 204, 404}

AlertKeys == {"status", "count", "info", "infocode", "lives"}
PointsKeys == {"status", "count", "info", "infocode", "forecasts"}

\* A JSON body: the keys its top-level object has, the envelope's four
\* text fields, and the array under its "lives" or "forecasts" key.
Body(ks, st, cn, inf, ic, pl) ==
    [keys |-> ks, status |-> st, count |-> cn, info |-> inf,
     infocode |-> ic, payload |-> pl]

NoBody == Body({}, "", "", "", "", <<>>)

Bodies ==
    {Body(AlertKeys, "1", "1", "OK", "10000", <<LiveA>>),
     Body(AlertKeys, "1", "0", "OK", "10000", <<>>),
     Body(AlertKeys, "0", "0", "INVALID_USER_KEY", "10001", <<>>),
     Body(PointsKeys, "1", "1", "OK", "10000",
          <<Forecast(<<"Beijing City">>, <<DayA>>)>>),
     Body(PointsKeys, "0", "0", "INVALID_USER_KEY", "10001",
          <<Forecast(<<"Beijing City">>, <<DayA>>)>>),
     Body(PointsKeys, "1", "0", "OK", "10000", <<>>),
     Body(AlertKeys \ {"infocode"}, "1", "1", "OK", "", <<LiveA>>),
     Body(PointsKeys \ {"count"}, "1", "", "OK", "10000",
          <<Forecast(<<"Beijing City">>, <<DayA>>)>>)}

\* the fields #[derive(Deserialize)] requires of the top-level object
Required(T) == IF T = "AlertResponse" THEN AlertKeys ELSE PointsKeys

\* a decoder that also rejects an envelope whose status is not "1"
DecodesStatusChecked(T, body) ==
    Required(T) \subseteq body.keys /\ body.status = "1"

\* response.json::<T>() succeeds: no required field is missing
Decodes(T, body) == Required(T) \subseteq body.keys

\* the decoded AlertResponse or PointsResponse
Decode(T, body) ==
    IF T = "AlertResponse"
    THEN [status |-> body.status, count |-> body.count, info |-> body.info,
          infocode |-> body.infocode, lives |-> body.payload,
          forecasts |-> <<>>]
    ELSE [status |-> body.status, count |-> body.count, info |-> body.info,
          infocode |-> body.infocode, lives |-> <<>>,
          forecasts |-> body.payload]

NoValue == Decode("AlertResponse", NoBody)

\* Result<T, String>
Ok(v) == [ok |-> TRUE, val |-> v, err |-> <<>>]
Err(e) == [ok |-> FALSE, val |-> NoValue, err |-> e]

\* a status test that accepts every 2xx status
IsSuccess(status) == status \in 200..299

\* the match arm of line 135: the status is exactly OK
IsOk(status) == status = StatusOK

\* line 130: send() failed
SendError(url) ==
    Err(<<"Failed to make request to ">> \o url \o <<": ", "send error">>)

\* line 139: a status other than OK
StatusError(url, status) ==
    Err(<<"Failed to make request to ">> \o url \o <<": ", ToString(status)>>)

\* lines 135-138: the body is read and decoded
JsonResult(T, url, body) ==
    IF Decodes(T, body) THEN Ok(Decode(T, body))
    ELSE Err(<<"Failed to parse request to ">> \o url \o <<": ", "decode error">>)

-----------------------------------------------------------------------------
(* Tool invocations, lines 119-187 *)

Ids == 1..MaxInv
Tools == {"get_alerts", "get_forecast"}

\* the location codes the invocations are called with
InvokedCodes == {<<"110000">>, <<"110000", "&", "extensions", "=", "all">>}

IdleInv ==
    [pc |-> "idle", tool |-> "get_alerts", code |-> <<>>, sent |-> 0,
     net |-> "none", status |-> 0, body |-> NoBody, result |-> <<>>]

\* the type parameter of make_request, lines 154 and 178
TypeOf(tool) ==
    IF tool = "get_alerts" THEN "AlertResponse" ELSE "PointsResponse"

UrlOf(tool, code) ==
    IF tool = "get_alerts" THEN alerts_url(code) ELSE forecast_url(code)

\* lines 159 and 184
Fallback(tool) ==
    IF tool = "get_alerts" THEN AlertsFallback ELSE ForecastFallback

\* the match of lines 155-161 and 180-186
MatchResult(tool, res) ==
    IF res.ok
    THEN IF tool = "get_alerts" THEN format_alerts(res.val.lives)
         ELSE format_forecast(res.val.forecasts)
    ELSE Fallback(tool)

\* an invocation that starts over when its request failed
ReturnOrRetry(r, res) ==
    IF res.ok
    THEN [r EXCEPT !.pc = "done", !.result = MatchResult(r.tool, res)]
    ELSE [r EXCEPT !.pc = "idle"]

\* the tool returns the text of its match; nothing follows a failure
Return(r, res) ==
    [r EXCEPT !.pc = "done", !.result = MatchResult(r.tool, res)]

\* a body taken from a slot that the invocations share
SharedBody(i, body) ==
    IF \E j \in Ids \ {i} : inv[j].body # NoBody
    THEN inv[CHOOSE j \in Ids \ {i} : inv[j].body # NoBody].body
    ELSE body

\* the body json() reads is the one of this invocation's own response
ResponseBody(i, body) == body

Info(msg) == [level |-> "INFO", msg |-> msg]
Error(msg) == [level |-> "ERROR", msg |-> msg]
Logged(entry) == SetToBag({entry})

\* lines 149 and 171
ReceivedLog(tool, code) ==
    IF tool = "get_alerts"
    THEN Info(<<"Received request for weather alerts in state: ">> \o code)
    ELSE Info(<<"Received request for forecast with city code ">> \o code)

\* lines 158 and 183
FetchErrorLog(tool, res) ==
    IF res.ok THEN EmptyBag
    ELSE IF tool = "get_alerts"
    THEN Logged(Error(<<"Failed to fetch alerts: ">> \o res.err))
    ELSE Logged(Error(<<"Failed to fetch points: ">> \o res.err))

\* line 177: println!("111111 {}", url)
Println(url) == [by |-> "tool", text |-> <<"111111 ">> \o url \o <<NL>>]

\* the stdio transport of line 221 answers the call with the tool's text
Reply(r) == [by |-> "transport", text |-> r.result]

StdoutAfter(r) == IF r.pc = "done" THEN Append(stdout, Reply(r)) ELSE stdout

\* The call is dispatched and runs to its first await, send() of line 128:
\* lines 149-154 or 171-178, then lines 123-128.
Invoke(i, tool, code) ==
    /\ inv[i].pc = "idle"
    /\ inv' = [inv EXCEPT ![i] = [@ EXCEPT !.pc = "sending", !.tool = tool,
                                            !.code = code, !.sent = @ + 1]]
    /\ log' = log (+) Logged(ReceivedLog(tool, code))
                  (+) Logged(Info(<<"Making request to ">> \o UrlOf(tool, code)))
    /\ stdout' = IF tool = "get_forecast"
                 THEN Append(stdout, Println(UrlOf(tool, code)))
                 ELSE stdout
    /\ UNCHANGED <<op, arg, ret, applied>>

\* send() fails, line 130; the tool's Err arm runs
SendFails(i) ==
    /\ inv[i].pc = "sending"
    /\ LET r == inv[i]
           res == SendError(UrlOf(r.tool, r.code))
           r2 == Return([r EXCEPT !.net = "failed"], res)
       IN /\ inv' = [inv EXCEPT ![i] = r2]
          /\ log' = log (+) FetchErrorLog(r.tool, res)
          /\ stdout' = StdoutAfter(r2)
    /\ UNCHANGED <<op, arg, ret, applied>>

\* the response arrives, lines 132-139
ResponseArrives(i, status) ==
    /\ inv[i].pc = "sending"
    /\ LET r == [inv[i] EXCEPT !.net = "responded", !.status = status]
           res == StatusError(UrlOf(r.tool, r.code), status)
           r2 == IF IsOk(status) THEN [r EXCEPT !.pc = "reading"]
                 ELSE Return(r, res)
           received == Logged(Info(<<"Received response: ", ToString(status)>>))
       IN /\ inv' = [inv EXCEPT ![i] = r2]
          /\ log' = IF IsOk(status) THEN log (+) received
                    ELSE log (+) received (+) FetchErrorLog(r.tool, res)
          /\ stdout' = StdoutAfter(r2)
    /\ UNCHANGED <<op, arg, ret, applied>>

\* json() completes, lines 135-138; the tool's match runs
BodyRead(i, body) ==
    /\ inv[i].pc = "reading"
    /\ LET r == [inv[i] EXCEPT !.body = body]
           res == JsonResult(TypeOf(r.tool), UrlOf(r.tool, r.code),
                             ResponseBody(i, body))
           r2 == Return(r, res)
       IN /\ inv' = [inv EXCEPT ![i] = r2]
          /\ log' = log (+) FetchErrorLog(r.tool, res)
          /\ stdout' = StdoutAfter(r2)
    /\ UNCHANGED <<op, arg, ret, applied>>

\* main, lines 201-221: logging is set up and the server is started
Init ==
    /\ inv = [i \in Ids |-> IdleInv]
    /\ log = Logged(Info(<<"Starting weather MCP server">>))
    /\ stdout = <<>>
    /\ op = "none"
    /\ arg = <<>>
    /\ ret = <<>>
    /\ applied = FALSE

Next ==
    \/ \E i \in Ids, tool \in Tools, code \in InvokedCodes : Invoke(i, tool, code)
    \/ \E i \in Ids : SendFails(i)
    \/ \E i \in Ids, status \in Statuses : ResponseArrives(i, status)
    \/ \E i \in Ids, body \in Bodies : BodyRead(i, body)

Spec == Init /\ [][Next]_vars

-----------------------------------------------------------------------------
(* The formatters on their own *)

InitFmt ==
    /\ inv = [i \in Ids |-> IdleInv]
    /\ log = Logged(Info(<<"Starting weather MCP server">>))
    /\ stdout = <<>>
    /\ \/ op = "format_alerts" /\ arg \in SeqsUpTo(Lives, MaxReports)
       \/ op = "format_forecast" /\ arg \in SeqsUpTo(Forecasts, MaxEnvelopes)
    /\ ret = <<>>
    /\ applied = FALSE

ApplyFormatAlerts ==
    /\ op = "format_alerts" /\ ~applied
    /\ ret' = format_alerts(arg)
    /\ applied' = TRUE
    /\ UNCHANGED <<inv, log, stdout, op, arg>>

ApplyFormatForecast ==
    /\ op = "format_forecast" /\ ~applied
    /\ ret' = format_forecast(arg)
    /\ applied' = TRUE
    /\ UNCHANGED <<inv, log, stdout, op, arg>>

NextFmt == ApplyFormatAlerts \/ ApplyFormatForecast

SpecFmt == InitFmt /\ [][NextFmt]_vars

-----------------------------------------------------------------------------
(* The URL builders on their own *)

InitUrl ==
    /\ inv = [i \in Ids |-> IdleInv]
    /\ log = Logged(Info(<<"Starting weather MCP server">>))
    /\ stdout = <<>>
    /\ op \in {"alerts_url", "forecast_url"}
    /\ arg \in Codes
    /\ ret = <<>>
    /\ applied = FALSE

BuildAlertsUrl ==
    /\ op = "alerts_url" /\ ~applied
    /\ ret' = alerts_url(arg)
    /\ applied' = TRUE
    /\ UNCHANGED <<inv, log, stdout, op, arg>>

BuildForecastUrl ==
    /\ op = "forecast_url" /\ ~applied
    /\ ret' = forecast_url(arg)
    /\ applied' = TRUE
    /\ UNCHANGED <<inv, log, stdout, op, arg>>

NextUrl == BuildAlertsUrl \/ BuildForecastUrl

SpecUrl == InitUrl /\ [][NextUrl]_vars

-----------------------------------------------------------------------------
(* Properties *)

Done(i) == inv[i].pc = "done"

\* the top-level object of the body has every field the tool's envelope needs
HasAllFields(tool, body) ==
    IF tool = "get_alerts" THEN AlertKeys \subseteq body.keys
    ELSE PointsKeys \subseteq body.keys

\* the HTTP call succeeded with status 200 and the body decoded
Fetched(r) ==
    r.net = "responded" /\ r.status = 200 /\ HasAllFields(r.tool, r.body)

TransportFailed(r) == r.net = "failed"
StatusFailed(r) == r.net = "responded" /\ r.status # 200
DecodeFailed(r) ==
    r.net = "responded" /\ r.status = 200 /\ ~HasAllFields(r.tool, r.body)

\* C1: a finished invocation of either tool has returned the formatter's
\* output over the decoded payload when the call succeeded with status OK and
\* the body decoded, and otherwise (transport failure, non-OK status, decode
\* failure) the tool's own fallback sentinel, whole and the same for the
\* three causes; the text is what the transport answers with.
C1_TextOrFallback ==
    \A i \in Ids : Done(i) =>
        LET r == inv[i] IN
        /\ Fetched(r) \/ TransportFailed(r) \/ StatusFailed(r) \/ DecodeFailed(r)
        /\ Fetched(r) /\ r.tool = "get_alerts"
              => r.result = format_alerts(r.body.payload)
        /\ Fetched(r) /\ r.tool = "get_forecast"
              => r.result = format_forecast(r.body.payload)
        /\ ~Fetched(r) /\ r.tool = "get_alerts"
              => r.result = <<"No alerts found or an error occurred.">>
        /\ ~Fetched(r) /\ r.tool = "get_forecast"
              => r.result = <<"No forecast found or an error occurred.">>
        /\ \E k \in 1..Len(stdout) : stdout[k] = [by |-> "transport", text |-> r.result]

\* one invocation answered a non-OK status (204) with the fallback, another
\* a decoded body with its formatted text
C1_Witness ==
    \E i, j \in Ids :
        /\ Done(i) /\ StatusFailed(inv[i]) /\ inv[i].status = 204
        /\ inv[i].result = <<"No alerts found or an error occurred.">>
        /\ Done(j) /\ inv[j].tool = "get_forecast" /\ Fetched(inv[j])
        /\ inv[j].body.payload # <<>>
        /\ inv[j].result = format_forecast(inv[j].body.payload)

\* C2 as stated: whatever the tool, a failed fetch returns the one sentinel
\* "No alerts found or an error occurred."
C2_OneSentinelForBothTools ==
    \A i \in Ids : Done(i) /\ ~Fetched(inv[i])
        => inv[i].result = <<"No alerts found or an error occurred.">>

\* C2 amended: on a failed fetch get_alerts returns "No alerts found or an
\* error occurred." and get_forecast returns "No forecast found or an error
\* occurred."; each tool has one fixed sentinel, and the two differ.
C2_OneSentinelPerTool ==
    \A i, j \in Ids :
        Done(i) /\ ~Fetched(inv[i]) /\ Done(j) /\ ~Fetched(inv[j]) =>
            /\ inv[i].tool = inv[j].tool => inv[i].result = inv[j].result
            /\ inv[i].tool # inv[j].tool => inv[i].result # inv[j].result
            /\ inv[i].result \in {<<"No alerts found or an error occurred.">>,
                                  <<"No forecast found or an error occurred.">>}

\* both tools have failed, one on the transport and one on the status
C2_Witness ==
    \E i, j \in Ids :
        /\ Done(i) /\ inv[i].tool = "get_alerts" /\ TransportFailed(inv[i])
        /\ Done(j) /\ inv[j].tool = "get_forecast" /\ StatusFailed(inv[j])

\* the step is one in which invocation i learns that its fetch failed
FailsNow(i) ==
    /\ inv[i].pc \in {"sending", "reading"}
    /\ inv'[i] # inv[i]
    /\ ~(inv'[i].pc = "reading")
    /\ ~Fetched(inv'[i])

\* C3: an invocation issues exactly one GET: none before it is called, one
\* from then on; the step in which its attempt fails is the step in which
\* it returns the fallback text, and no request follows.
C3_NoRetry ==
    [][\A i \in Ids :
          /\ inv'[i].sent <= 1
          /\ inv'[i].pc # "idle" => inv'[i].sent = 1
          /\ FailsNow(i) => /\ inv'[i].pc = "done"
                            /\ inv'[i].result = Fallback(inv'[i].tool)
                            /\ inv'[i].sent = inv[i].sent
          /\ inv[i].pc = "done" => inv'[i] = inv[i]]_vars

\* an invocation has failed and returned after its one request
C3_Witness ==
    \E i \in Ids :
        /\ Done(i) /\ DecodeFailed(inv[i]) /\ inv[i].sent = 1
        /\ inv[i].result = Fallback(inv[i].tool)

\* what an invocation returns when it runs with no other invocation
SoloResult(r) ==
    LET url == UrlOf(r.tool, r.code) IN
    IF r.net = "failed" THEN MatchResult(r.tool, SendError(url))
    ELSE IF ~IsOk(r.status) THEN MatchResult(r.tool, StatusError(url, r.status))
    ELSE MatchResult(r.tool, JsonResult(TypeOf(r.tool), url, r.body))

\* C7: under every interleaving, a finished invocation has returned what it
\* returns when run alone with its location code and its HTTP outcome, and
\* two invocations with the same tool, code and outcome return the same.
C7_Independent ==
    \A i \in Ids : Done(i) =>
        /\ inv[i].result = SoloResult(inv[i])
        /\ \A j \in Ids :
              /\ Done(j) /\ inv[j].tool = inv[i].tool /\ inv[j].code = inv[i].code
              /\ inv[j].net = inv[i].net /\ inv[j].status = inv[i].status
              /\ inv[j].body = inv[i].body
              => inv[j].result = inv[i].result

\* two invocations of the same tool have finished, one failed on its body
\* and the other returned its formatted payload
C7_Witness ==
    \E i, j \in Ids :
        /\ i # j /\ Done(i) /\ Done(j) /\ inv[i].tool = inv[j].tool
        /\ DecodeFailed(inv[i]) /\ inv[i].body # NoBody
        /\ Fetched(inv[j]) /\ inv[j].result # Fallback(inv[j].tool)

\* C8: standard output holds only what the transport wrote
C8_StdoutOnlyTransport ==
    \A k \in 1..Len(stdout) : stdout[k].by = "transport"

\* C9: two finished invocations of one tool whose responses had status OK,
\* decoded, and carried the same payload array returned the same text,
\* whatever status, count, info and infocode held; a get_alerts response of
\* status "0" with empty lives returned "No active alerts found.".
C9_EnvelopeFieldsIgnored ==
    \A i \in Ids : Done(i) /\ Fetched(inv[i]) =>
        /\ \A j \in Ids :
              /\ Done(j) /\ Fetched(inv[j]) /\ inv[j].tool = inv[i].tool
              /\ inv[j].body.payload = inv[i].body.payload
              => inv[j].result = inv[i].result
        /\ inv[i].tool = "get_alerts" /\ inv[i].body.status = "0"
              /\ inv[i].body.payload = <<>>
              => inv[i].result = <<"No active alerts found.">>
        /\ inv[i].result # Fallback(inv[i].tool)

\* two get_alerts responses with the same empty lives, one of status "0"
\* and one of status "1", have both been answered
C9_Witness ==
    \E i, j \in Ids :
        /\ Done(i) /\ Fetched(inv[i]) /\ inv[i].tool = "get_alerts"
        /\ inv[i].body.status = "0" /\ inv[i].body.payload = <<>>
        /\ Done(j) /\ Fetched(inv[j]) /\ inv[j].tool = "get_alerts"
        /\ inv[j].body.status = "1" /\ inv[j].body.payload = <<>>
        /\ inv[i].body.infocode # inv[j].body.infocode

-----------------------------------------------------------------------------
(* Properties of the formatters *)

RECURSIVE JoinLines(_)
JoinLines(ls) ==
    IF ls = <<>> THEN <<>>
    ELSE Head(ls) \o <<NL>> \o JoinLines(Tail(ls))

\* the lines of the block of one report
LiveLines(r) ==
    << <<LblProvince>> \o r.province,
       <<LblCity>> \o r.city,
       <<LblWeather>> \o r.weather,
       <<LblTemp>> \o r.temperature \o <<DEG>>,
       <<LblWind>> \o r.winddirection \o <<LP>> \o r.windpower \o <<RP>>,
       <<SEP>> >>

\* the lines of the block of one day
DayLines(d) ==
    << <<LblDate>> \o d.date,
       <<LblDay>> \o d.dayweather \o <<SP>> \o d.daytemp \o <<DEG, SP>>
            \o d.daywind \o <<LP>> \o d.daypower \o <<RP, SP>>,
       <<LblNight>> \o d.nightweather \o <<SP>> \o d.nighttemp \o <<DEG, SP>>
            \o d.nightwind \o <<LP>> \o d.nightpower \o <<RP>>,
       <<SEP>> >>

\* text is block 1, ..., block n of blocks, one after the other, and
\* nothing else; each block ends with the line "---"
RECURSIVE IsBlocks(_, _)
IsBlocks(text, blocks) ==
    IF blocks = <<>> THEN text = <<>>
    ELSE LET b == JoinLines(Head(blocks)) IN
         /\ Len(text) >= Len(b)
         /\ SubSeq(text, 1, Len(b)) = b
         /\ Len(b) >= 3
         /\ SubSeq(b, Len(b) - 2, Len(b)) = <<NL, SEP, NL>>
         /\ IsBlocks(SubSeq(text, Len(b) + 1, Len(text)), Tail(blocks))

\* the days of all envelopes, envelope after envelope
RECURSIVE AllDays(_)
AllDays(envelopes) ==
    IF envelopes = <<>> THEN <<>>
    ELSE Head(envelopes).casts \o AllDays(Tail(envelopes))

\* C5: format_alerts of the empty sequence is "No active alerts found."; of
\* a nonempty sequence it is one block per report, in input order, each the
\* lines province, city, weather, temperature with the degree suffix, wind
\* direction with the wind power in parentheses, and the line "---".
C5_OneBlockPerReport ==
    applied /\ op = "format_alerts" =>
        IF arg = <<>> THEN ret = <<"No active alerts found.">>
        ELSE IsBlocks(ret, [k \in 1..Len(arg) |-> LiveLines(arg[k])])

\* three reports, the second with a separator inside its weather text
C5_Witness ==
    /\ applied /\ op = "format_alerts" /\ Len(arg) = 3
    /\ arg[1] = LiveB /\ arg[2] = LiveC /\ arg[3] = LiveA
    /\ Len(ret) > 3 * 12

\* C6: format_forecast of a nonempty envelope sequence is one block per day,
\* envelope after envelope and day after day, so as many blocks as there are
\* days in all the envelopes, each the date line, the daytime line, the
\* nighttime line and the line "---".
C6_OneBlockPerDay ==
    applied /\ op = "format_forecast" /\ arg # <<>> =>
        IsBlocks(ret, [k \in 1..Len(AllDays(arg)) |-> DayLines(AllDays(arg)[k])])

\* two envelopes, the first with two days, the second with one
C6_Witness ==
    /\ applied /\ op = "format_forecast" /\ Len(arg) = 2
    /\ arg[1].casts = <<DayA, DayB>> /\ arg[2].casts = <<DayB>>
    /\ ret # <<>>

\* C10: format_forecast returns "No forecast data available." exactly when
\* the envelope sequence is empty; for a nonempty sequence of envelopes that
\* all have no day it returns the empty string.
C10_SentinelIffNoEnvelope ==
    applied /\ op = "format_forecast" =>
        /\ ret = <<"No forecast data available.">> <=> arg = <<>>
        /\ arg # <<>> /\ (\A k \in 1..Len(arg) : arg[k].casts = <<>>)
              => ret = <<>>

\* two envelopes without days were formatted to the empty string
C10_Witness ==
    /\ applied /\ op = "format_forecast" /\ Len(arg) = 2
    /\ arg[1].casts = <<>> /\ arg[2].casts = <<>>
    /\ ret = <<>>

-----------------------------------------------------------------------------
(* Properties of the URLs *)

\* C4: for every location code, the URL of get_alerts carries the API key,
\* the location code after "city=" and output=json, and no extensions
\* parameter; the URL of get_forecast carries the same three and
\* extensions=all.
C4_UrlParameters ==
    applied =>
        /\ Carries(ret, "key", <<API_KEY>>)
        /\ HoldsCity(ret, arg)
        /\ Carries(ret, "output", <<"json">>)
        /\ op = "alerts_url" => ~HasParam(ret, "extensions")
        /\ op = "forecast_url" => Carries(ret, "extensions", <<"all">>)

====
